---- MODULE Spec2Model ----
(***************************************************************************)
(* Zoom recording ingestion of the LMS Live Class doctype                  *)
(* (lms/lms/doctype/lms_live_class/lms_live_class.py).                     *)
(*                                                                         *)
(* The state is the LMS Live Class table (configuration and recording      *)
(* fields of each record), the Course Lesson table, the Notification Log,  *)
(* and the background jobs running process_zoom_recording.  Every database *)
(* statement and every call to the provider is one step of a job, so jobs  *)
(* of several workers interleave between those steps.                      *)
(*                                                                         *)
(* Beside the ingestion the module holds the two scheduled jobs of the     *)
(* same file, update_attendance and send_live_class_reminder, and the two  *)
(* endpoints of lms/lms/api.py the ingestion is reached and read through:  *)
(* zoom_webhook, with the HMAC-SHA256 of its handshake and signatures, and *)
(* get_zoom_recording_playback, and the after_insert hook of the doctype,  *)
(* which creates the calendar event.  Each has a specification of its own. *)
(***************************************************************************)
EXTENDS Integers, Sequences, FiniteSets, TLC

VARIABLES
    cfg,            \* LMS Live Class: the fields the ingestion only reads
    rec,            \* LMS Live Class: the recording fields of each record
    lessons,        \* names of the Course Lesson documents that exist
    job,            \* the background jobs of process_zoom_recording
    notifications,  \* Notification Log, in order of insertion
    attendance,     \* attendees of each record and its LMS Live Class Participant rows
    sweep,          \* the scheduled job running update_attendance
    outbox,         \* the mails handed to frappe.sendmail, in order
    reminder,       \* the scheduled job running send_live_class_reminder
    webhook,        \* the webhook secret and the deliveries zoom_webhook handled
    playback,       \* the playback requests answered, in order
    calendar        \* what after_insert of each record left: its event and link

\* The variables process_zoom_recording never touches.
extVars == <<attendance, sweep, outbox, reminder, webhook, playback, calendar>>

vars == <<cfg, rec, lessons, job, notifications, extVars>>

----------------------------------------------------------------------------
(* Bounds of the model *)

MaxJobs == 2

JobIds == 1..MaxJobs

\* The number of runs of update_attendance.
MaxSweeps == 2

\* The number of runs of send_live_class_reminder.
MaxReminderRuns == 2

\* The number of deliveries to the webhook endpoint.
MaxRequests == 2

\* The number of playback requests.
MaxPlaybacks == 2

----------------------------------------------------------------------------
(* The LMS Live Class table *)

Names == {"LC1", "LC2", "LC3", "LC4"}

SessionUser == "Administrator"

\* The lessons live classes link to.
LessonRefs == {"LESSON-1"}

\* The configurations the records start from: LC1 is a cloud-recorded class
\* with a meeting id and a lesson, LC2 a cloud-recorded class without a
\* meeting id, LC3 a class that is not recorded to the cloud, LC4 a class no
\* Zoom meeting was created for.
LiveClassConfigs ==
    { [n \in Names |->
         CASE n = "LC1" -> [name |-> "LC1", uuid |-> "uuid-1", batch_name |-> "BATCH-1",
                            auto_recording |-> "Cloud", zoom_account |-> "ZOOM-1",
                            lesson |-> l, meeting_id |-> "8001", host |-> "host@lms",
                            title |-> "Algebra", date |-> "2024-01-01"]
           [] n = "LC2" -> [name |-> "LC2", uuid |-> "uuid-2", batch_name |-> "BATCH-1",
                            auto_recording |-> "Cloud", zoom_account |-> "ZOOM-1",
                            lesson |-> "", meeting_id |-> "", host |-> "host@lms",
                            title |-> "Geometry", date |-> "2024-01-01"]
           [] n = "LC3" -> [name |-> "LC3", uuid |-> "uuid-3", batch_name |-> "BATCH-2",
                            auto_recording |-> "Local", zoom_account |-> "ZOOM-1",
                            lesson |-> "", meeting_id |-> "8003", host |-> "host@lms",
                            title |-> "Physics", date |-> "2024-01-02"]
           [] OTHER     -> [name |-> "LC4", uuid |-> "", batch_name |-> "BATCH-3",
                            auto_recording |-> "No Recording", zoom_account |-> "ZOOM-1",
                            lesson |-> "", meeting_id |-> "", host |-> "host@lms",
                            title |-> "Chemistry", date |-> "2024-01-01"] ]
      : l \in LessonRefs }

\* The recording fields of a record no recording was ingested for.
NoRecording ==
    [recording_processed |-> FALSE, zoom_recording_id |-> "", recording_url |-> "",
     recording_passcode |-> "", recording_duration |-> 0, recording_file_size |-> 0]

LessonTitle(lesson) == IF lesson \in lessons THEN "Title of " \o lesson ELSE ""

----------------------------------------------------------------------------
(* Recording-file descriptors of the recording.completed payload *)

\* A timestamp is <<day, hour, minute, second>>; <<>> is an absent one.
NoTimestamp == <<>>

SpeakerVideo ==
    [file_type |-> "MP4", recording_type |-> "speaker_view", id |-> "rec-speaker",
     play_url |-> "https://zoom/play/speaker", file_size |-> 5000,
     recording_start |-> <<1, 10, 0, 0>>, recording_end |-> <<1, 10, 45, 30>>]

GalleryVideo ==
    [file_type |-> "MP4", recording_type |-> "gallery_view", id |-> "rec-gallery",
     play_url |-> "https://zoom/play/gallery", file_size |-> 7000,
     recording_start |-> NoTimestamp, recording_end |-> <<1, 10, 45, 30>>]

ScreenVideo ==
    [file_type |-> "MP4", recording_type |-> "shared_screen", id |-> "rec-screen",
     play_url |-> "https://zoom/play/screen", file_size |-> 3000,
     recording_start |-> <<1, 10, 0, 0>>, recording_end |-> <<1, 10, 45, 30>>]

AudioOnly ==
    [file_type |-> "M4A", recording_type |-> "audio_only", id |-> "rec-audio",
     play_url |-> "https://zoom/play/audio", file_size |-> 900,
     recording_start |-> <<1, 10, 0, 0>>, recording_end |-> <<1, 10, 45, 30>>]

\* A descriptor whose recording_end is earlier than its recording_start.
EndBeforeStartVideo ==
    [file_type |-> "MP4", recording_type |-> "speaker_view", id |-> "rec-skewed",
     play_url |-> "https://zoom/play/skewed", file_size |-> 5000,
     recording_start |-> <<1, 10, 45, 30>>, recording_end |-> <<1, 10, 0, 0>>]

\* What video_file holds while no descriptor is selected.
NoFile ==
    [file_type |-> "", recording_type |-> "", id |-> "", play_url |-> "",
     file_size |-> 0, recording_start |-> NoTimestamp, recording_end |-> NoTimestamp]

\* The file lists the provider delivers.
RecordingFileLists ==
    { <<>>,
      <<AudioOnly, ScreenVideo>>,
      <<AudioOnly, SpeakerVideo>>,
      <<GalleryVideo, SpeakerVideo>> }

MeetingUuids == {"uuid-1", "uuid-2", "uuid-3", "uuid-unknown"}

\* Deliveries for LC1 whose timestamps are in order, or are not.
TimestampFileLists ==
    { <<AudioOnly, SpeakerVideo>>,
      <<AudioOnly, EndBeforeStartVideo>> }

----------------------------------------------------------------------------
(* process_zoom_recording: the pure parts *)

AllowedRecordingTypes ==
    {"shared_screen_with_speaker_view", "shared_screen_with_gallery_view",
     "speaker_view", "gallery_view"}

IsSuitableAny(file) == TRUE

IsSuitable(file) ==
    file.file_type = "MP4" /\ file.recording_type \in AllowedRecordingTypes

\* The loop without its break: the last suitable descriptor stays selected.
RECURSIVE SelectVideoFileNoBreak(_)
SelectVideoFileNoBreak(files) ==
    IF files = <<>> THEN NoFile
    ELSE IF SelectVideoFileNoBreak(Tail(files)) # NoFile
    THEN SelectVideoFileNoBreak(Tail(files))
    ELSE IF IsSuitable(Head(files)) THEN Head(files)
    ELSE NoFile

\* The first suitable descriptor in list order, NoFile when there is none.
RECURSIVE SelectVideoFile(_)
SelectVideoFile(files) ==
    IF files = <<>> THEN NoFile
    ELSE IF IsSuitable(Head(files)) THEN Head(files)
    ELSE SelectVideoFile(Tail(files))

EpochSeconds(t) == ((t[1] * 24 + t[2]) * 60 + t[3]) * 60 + t[4]

DurationInMinutes(file) ==
    IF file.recording_start # NoTimestamp /\ file.recording_end # NoTimestamp
    THEN (EpochSeconds(file.recording_end) - EpochSeconds(file.recording_start)) \div 60
    ELSE 0

\* int((end_time - start_time).total_seconds()) when both are given, else 0
DurationSeconds(file) ==
    IF file.recording_start # NoTimestamp /\ file.recording_end # NoTimestamp
    THEN EpochSeconds(file.recording_end) - EpochSeconds(file.recording_start)
    ELSE 0

\* The dict process_zoom_recording hands to frappe.db.set_value.
MetadataFlagOnly(file, passcode) == [recording_processed |-> TRUE]

\* The dict without "recording_processed": 1.
MetadataWithoutFlag(file, passcode) ==
    [zoom_recording_id   |-> file.id,
     recording_url       |-> file.play_url,
     recording_passcode  |-> passcode,
     recording_duration  |-> DurationSeconds(file),
     recording_file_size |-> file.file_size]

Metadata(file, passcode) ==
    [recording_processed |-> TRUE,
     zoom_recording_id   |-> file.id,
     recording_url       |-> file.play_url,
     recording_passcode  |-> passcode,
     recording_duration  |-> DurationSeconds(file),
     recording_file_size |-> file.file_size]

\* frappe.db.set_value(doctype, name, dict): one UPDATE of the named columns.
SetValue(row, values) ==
    [f \in DOMAIN row |-> IF f \in DOMAIN values THEN values[f] ELSE row[f]]

----------------------------------------------------------------------------
(* The provider (Zoom) and the notification subsystem, as seen by a job *)

\* authenticate(zoom_account) returns a bearer token or raises.
AuthenticateOutcomes == {"token", "raises"}

\* requests.get(...) returns a response or raises (connection error, timeout).
NoResponse == [kind |-> "none", status |-> 0, body |-> ""]

\* The body of a response is a JSON object with the passcode, a JSON object
\* without it (an error object, too), or no JSON at all.
RecordingsOutcomes ==
    { [kind |-> "response", status |-> 200, body |-> "json_passcode"],
      [kind |-> "response", status |-> 200, body |-> "json_no_passcode"],
      [kind |-> "response", status |-> 200, body |-> "not_json"],
      [kind |-> "response", status |-> 300, body |-> "json_no_passcode"],
      [kind |-> "response", status |-> 404, body |-> "json_no_passcode"],
      [kind |-> "response", status |-> 500, body |-> "not_json"],
      [kind |-> "network_error", status |-> 0, body |-> ""] }

\* response.raise_for_status(): HTTPError for a 4xx or 5xx status.
RaisesForStatus(status) == status >= 400 /\ status < 600

\* The truth value of a Response is its ok: false for a 4xx or 5xx status.
ResponseIsTruthy(response) == ~RaisesForStatus(response.status)

\* "Response: {e.response.text if e.response else 'N/A'}" of the HTTPError log.
LoggedResponseText(response) ==
    IF ResponseIsTruthy(response) THEN response.body ELSE "N/A"

\* recording_data.get("recording_play_passcode", "")
PlayPasscode(body) == IF body = "json_passcode" THEN "passcode-1" ELSE ""

\* notification.insert(ignore_permissions=True) succeeds or raises.
NotifyOutcomes == {"inserted", "raises"}

----------------------------------------------------------------------------
(* The background jobs *)

\* What frappe.db.get_value(..., as_dict=True) gives when no record matches.
NoLiveClass ==
    [name |-> "", batch_name |-> "", auto_recording |-> "", zoom_account |-> "",
     lesson |-> "", meeting_id |-> ""]

\* A job: the arguments and locals of process_zoom_recording, and what the
\* run did so far (seen_processed, calls, response, wrote, notified, log, and
\* the response text of its HTTPError log entry).
IdleJob ==
    [pc |-> "idle", meeting_uuid |-> "", recording_files |-> <<>>,
     live_class |-> NoLiveClass, video_file |-> NoFile, recording_passcode |-> "",
     seen_processed |-> FALSE, calls |-> <<>>, response |-> NoResponse,
     wrote |-> FALSE, notified |-> FALSE, log |-> "", logged_response |-> ""]

Running(j) == job[j].pc \in {"check", "auth", "fetch", "store", "notify"}

Finished(j) == job[j].pc \in {"done", "raised"}

NoneRunning == \A j \in JobIds : ~Running(j)

\* The lookup without its {"uuid": meeting_uuid} filter: any record matches.
FindLiveClassUnfiltered(meeting_uuid) ==
    LET n == CHOOSE n \in Names : cfg[n].auto_recording = "Cloud" /\ cfg[n].meeting_id # ""
    IN  [name |-> cfg[n].name, batch_name |-> cfg[n].batch_name,
         auto_recording |-> cfg[n].auto_recording,
         zoom_account |-> cfg[n].zoom_account,
         lesson |-> cfg[n].lesson, meeting_id |-> cfg[n].meeting_id]

\* Step 1: the record whose uuid is meeting_uuid, as the six fetched fields.
FindLiveClass(meeting_uuid) ==
    IF \E n \in Names : cfg[n].uuid = meeting_uuid
    THEN LET n == CHOOSE n \in Names : cfg[n].uuid = meeting_uuid
         IN  [name |-> cfg[n].name, batch_name |-> cfg[n].batch_name,
              auto_recording |-> cfg[n].auto_recording,
              zoom_account |-> cfg[n].zoom_account,
              lesson |-> cfg[n].lesson, meeting_id |-> cfg[n].meeting_id]
    ELSE NoLiveClass

\* Step 3: frappe.db.get_value("LMS Live Class", name, "recording_processed")
AlreadyProcessedNever(name) == FALSE

\* The check that lets a record without a passcode be ingested again.
AlreadyProcessedWithPasscode(name) ==
    rec[name].recording_processed /\ rec[name].recording_passcode # ""

AlreadyProcessed(name) == rec[name].recording_processed

\* The except clauses only write to the error log: the record stays as it is.
RecordAfterFailureMarked(name) == [rec[name] EXCEPT !.recording_processed = TRUE]

RecordAfterFailureUndone(name) == NoRecording

RecordAfterFailure(name) == rec[name]

\* dict.get(key, default)
GetOr(d, key, default) == IF key \in DOMAIN d THEN d[key] ELSE default

\* The title lookup without its "or lesson_title": nothing for a deleted lesson.
NotificationForLessonTitleOnly(live_class) ==
    [subject |-> "Recording available for "
                 \o (IF live_class.lesson # "" THEN LessonTitle(live_class.lesson)
                     ELSE "this live class"),
     for_user |-> GetOr(live_class, "host", SessionUser),
     document_type |-> "LMS Live Class",
     document_name |-> live_class.name]

\* notify_instructor_recording_available: the Notification Log document.
\* live_class is the dict of the six fields process_zoom_recording fetched.
NotificationFor(live_class) ==
    LET title == LessonTitle(live_class.lesson)
        lesson_title == IF live_class.lesson # "" /\ title # ""
                        THEN title ELSE "this live class"
    IN  [subject |-> "Recording available for " \o lesson_title,
         for_user |-> GetOr(live_class, "host", SessionUser),
         document_type |-> "LMS Live Class",
         document_name |-> live_class.name]

\* The webhook handler enqueues process_zoom_recording(meeting_uuid, recording_files).
Enqueue(j, meeting_uuid, recording_files) ==
    /\ job[j].pc = "idle"
    /\ \A i \in JobIds : i < j => job[i].pc # "idle"
    /\ job' = [job EXCEPT ![j] = [IdleJob EXCEPT !.pc = "queued",
                                                 !.meeting_uuid = meeting_uuid,
                                                 !.recording_files = recording_files]]
    /\ UNCHANGED <<cfg, rec, lessons, notifications, extVars>>

\* Steps 1 and 2: find the live class, require cloud recording.
Lookup(j) ==
    /\ job[j].pc = "queued"
    /\ \A i \in JobIds : i < j => job[i].pc \notin {"idle", "queued"}
    /\ LET live_class == FindLiveClass(job[j].meeting_uuid)
       IN  job' = [job EXCEPT ![j] =
             IF live_class = NoLiveClass
             THEN [@ EXCEPT !.pc = "done", !.log = "no_live_class"]
             ELSE IF live_class.auto_recording # "Cloud"
             THEN [@ EXCEPT !.pc = "done", !.log = "not_cloud",
                            !.live_class = live_class,
                            !.seen_processed = rec[live_class.name].recording_processed]
             ELSE [@ EXCEPT !.pc = "check", !.live_class = live_class,
                            !.seen_processed = rec[live_class.name].recording_processed]]
    /\ UNCHANGED <<cfg, rec, lessons, notifications, extVars>>

\* Steps 3 and 4: skip a processed record, select the video file.
CheckProcessed(j) ==
    /\ job[j].pc = "check"
    /\ LET video_file == SelectVideoFile(job[j].recording_files)
       IN  job' = [job EXCEPT ![j] =
             IF AlreadyProcessed(job[j].live_class.name)
             THEN [@ EXCEPT !.pc = "done"]
             ELSE IF video_file = NoFile
             THEN [@ EXCEPT !.pc = "done", !.log = "no_video"]
             ELSE [@ EXCEPT !.pc = "auth", !.video_file = video_file]]
    /\ UNCHANGED <<cfg, rec, lessons, notifications, extVars>>

\* Step 5, first half: the token exchange, then the meeting_id test.
Authenticate(j, outcome) ==
    /\ job[j].pc = "auth"
    /\ job' = [job EXCEPT ![j] =
         LET called == [@ EXCEPT !.calls = Append(@, "token")]
         IN  IF outcome = "raises"
             THEN [called EXCEPT !.pc = "raised"]
             ELSE IF job[j].live_class.meeting_id = ""
             THEN [called EXCEPT !.pc = "done", !.log = "no_meeting_id"]
             ELSE [called EXCEPT !.pc = "fetch"]]
    /\ UNCHANGED <<cfg, rec, lessons, notifications, extVars>>

\* Step 5, second half: GET /meetings/{meeting_id}/recordings inside the try.
FetchRecordings(j, response) ==
    /\ job[j].pc = "fetch"
    /\ LET called == [job[j] EXCEPT !.calls = Append(@, "recordings"),
                                    !.response = response]
           name   == job[j].live_class.name
       IN  IF response.kind = "network_error"
           THEN /\ job' = [job EXCEPT ![j] = [called EXCEPT !.pc = "done", !.log = "exception"]]
                /\ rec' = [rec EXCEPT ![name] = RecordAfterFailure(name)]
           ELSE IF RaisesForStatus(response.status)
           THEN /\ job' = [job EXCEPT ![j] =
                      [called EXCEPT !.pc = "done", !.log = "http_error",
                                     !.logged_response = LoggedResponseText(response)]]
                /\ rec' = [rec EXCEPT ![name] = RecordAfterFailure(name)]
           ELSE IF response.body = "not_json"
           THEN /\ job' = [job EXCEPT ![j] = [called EXCEPT !.pc = "done", !.log = "exception"]]
                /\ rec' = [rec EXCEPT ![name] = RecordAfterFailure(name)]
           ELSE /\ job' = [job EXCEPT ![j] =
                      [called EXCEPT !.pc = "store",
                                     !.recording_passcode = PlayPasscode(response.body)]]
                /\ rec' = rec
    /\ UNCHANGED <<cfg, lessons, notifications, extVars>>

\* Steps 6 and 7: frappe.db.set_value with the six fields, then commit.
StoreMetadata(j) ==
    /\ job[j].pc = "store"
    /\ rec' = [rec EXCEPT ![job[j].live_class.name] =
                 SetValue(@, Metadata(job[j].video_file, job[j].recording_passcode))]
    /\ job' = [job EXCEPT ![j] = [@ EXCEPT !.pc = "notify", !.wrote = TRUE]]
    /\ UNCHANGED <<cfg, lessons, notifications, extVars>>

\* Step 8: the notification; an exception of it reaches "except Exception".
Notify(j, outcome) ==
    /\ job[j].pc = "notify"
    /\ LET name == job[j].live_class.name
       IN  IF outcome = "inserted"
           THEN /\ notifications' = Append(notifications, NotificationFor(job[j].live_class))
                /\ job' = [job EXCEPT ![j] = [@ EXCEPT !.pc = "done", !.notified = TRUE]]
                /\ rec' = rec
           ELSE /\ notifications' = notifications
                /\ job' = [job EXCEPT ![j] = [@ EXCEPT !.pc = "done", !.log = "exception"]]
                /\ rec' = [rec EXCEPT ![name] = RecordAfterFailure(name)]
    /\ UNCHANGED <<cfg, lessons, extVars>>

\* A Course Lesson is deleted; no hook touches the live classes linking to it.
DeleteLesson(lesson) ==
    /\ lesson \in lessons
    /\ lessons' = lessons \ {lesson}
    /\ UNCHANGED <<cfg, rec, job, notifications, extVars>>

----------------------------------------------------------------------------
(* update_attendance: the hourly attendance sweep *)

\* attendees is an Int column, 0 until a count is stored; rows are the members
\* of the LMS Live Class Participant documents of the class, as inserted.
NoAttendance == [attendees |-> 0, rows |-> <<>>]

\* The filter ["is", "not set"] on attendees: the column holds no value.
IsNotSet(attendees) == attendees = 0

\* The filter ["is", "set"] on uuid.
IsSet(uuid) == uuid # ""

SelectedAllWithUuid(table) == {n \in Names : IsSet(cfg[n].uuid)}

\* The records frappe.get_all selects for update_attendance.
Selected(table) ==
    {n \in Names : IsSet(cfg[n].uuid) /\ IsNotSet(table[n].attendees)}

\* The orders a query can deliver the records of S in.
Orders(S) ==
    {o \in [1..Cardinality(S) -> S] : \A i, k \in 1..Cardinality(S) : o[i] = o[k] => i = k}

\* The participants member of a report of the provider.
ParticipantLists == {<<>>, <<"s1@lms">>, <<"s1@lms", "s2@lms">>}

\* requests.get(.../past_meetings/{uuid}/participants) returns a response or
\* raises; a body is a report with participants, a JSON object without that
\* member, or no JSON.
AttendanceOutcomes ==
    { [kind |-> "response", status |-> 200, body |-> "report", participants |-> p]
        : p \in ParticipantLists }
    \cup
    { [kind |-> "response", status |-> 200, body |-> "json_no_participants", participants |-> <<>>],
      [kind |-> "response", status |-> 200, body |-> "not_json", participants |-> <<>>],
      [kind |-> "response", status |-> 204, body |-> "not_json", participants |-> <<>>],
      [kind |-> "response", status |-> 404, body |-> "json_no_participants", participants |-> <<>>],
      [kind |-> "network_error", status |-> 0, body |-> "", participants |-> <<>>] }

\* The run of update_attendance: the records selected, those still to do
\* (the head is the one in hand), attendance_data, the uncommitted table of
\* the run's transaction, and what the run did so far (processed, failed).
IdleSweep ==
    [pc |-> "idle", run |-> 0, selected |-> <<>>, todo |-> <<>>, data |-> <<>>,
     tx |-> [n \in Names |-> NoAttendance], processed |-> {}, failed |-> {}]

SweepEnded == sweep.pc \in {"idle", "done", "raised"}

\* The scheduler starts update_attendance: the get_all of lines 116-123.
\* It commits the transaction when the function returns.
StartSweep(order) ==
    /\ SweepEnded
    /\ sweep.run < MaxSweeps
    /\ order \in Orders(Selected(attendance))
    /\ sweep' = [IdleSweep EXCEPT !.pc = IF order = <<>> THEN "done" ELSE "fetch",
                                  !.run = sweep.run + 1,
                                  !.selected = order, !.todo = order,
                                  !.tx = attendance]
    /\ UNCHANGED <<cfg, rec, lessons, job, notifications, attendance, outbox, reminder, webhook, playback, calendar>>

\* get_attendance of the record in hand.  authenticate may raise, requests.get
\* may raise, a status other than 200 makes frappe.throw raise, response.json()
\* raises for a body that is no JSON; nothing in update_attendance catches, so
\* the scheduler rolls the transaction back.
GetAttendance(auth, response) ==
    /\ sweep.pc = "fetch"
    /\ sweep' =
         IF \/ auth = "raises"
            \/ response.kind = "network_error"
            \/ response.status # 200
            \/ response.body = "not_json"
         THEN [sweep EXCEPT !.pc = "raised", !.failed = {Head(sweep.todo)}]
         ELSE [sweep EXCEPT !.pc = "create", !.data = response.participants]
    /\ UNCHANGED <<cfg, rec, lessons, job, notifications, attendance, outbox, reminder, webhook, playback, calendar>>

\* create_attendance: one LMS Live Class Participant per participant.
CreateAttendance ==
    /\ sweep.pc = "create"
    /\ sweep' = [sweep EXCEPT !.pc = "count",
                              !.tx[Head(sweep.todo)].rows = @ \o sweep.data]
    /\ UNCHANGED <<cfg, rec, lessons, job, notifications, attendance, outbox, reminder, webhook, playback, calendar>>

\* update_attendees_count, then the next record of the loop or the return.
UpdateAttendeesCount ==
    /\ sweep.pc = "count"
    /\ LET name == Head(sweep.todo)
           tx   == [sweep.tx EXCEPT ![name].attendees = Len(sweep.data)]
           rest == Tail(sweep.todo)
       IN  /\ sweep' = [sweep EXCEPT !.pc = IF rest = <<>> THEN "done" ELSE "fetch",
                                     !.todo = rest, !.data = <<>>, !.tx = tx,
                                     !.processed = @ \cup {name}]
           /\ attendance' = IF rest = <<>> THEN tx ELSE attendance
    /\ UNCHANGED <<cfg, rec, lessons, job, notifications, outbox, reminder, webhook, playback, calendar>>

----------------------------------------------------------------------------
(* send_live_class_reminder: the daily reminder sweep *)

\* The values nowdate() takes.
Dates == {"2024-01-01", "2024-01-02", "2024-01-03"}

\* The LMS Batch Enrollment table.
BatchEnrollments ==
    { [batch |-> "BATCH-1", member |-> "s1@lms"],
      [batch |-> "BATCH-1", member |-> "s2@lms"],
      [batch |-> "BATCH-2", member |-> "s2@lms"] }

ClassesOfAnyDate(today) == Names

\* frappe.get_all("LMS Live Class", {"date": nowdate()}, ...)
ClassesOn(today) == {n \in Names : cfg[n].date = today}

\* frappe.get_all("LMS Batch Enrollment", {"batch": live_class.batch_name}, ...)
Students(batch_name) == {e.member : e \in {x \in BatchEnrollments : x.batch = batch_name}}

\* send_mail: what frappe.sendmail is called with, and the run that called.
ReminderMail(run, name, member) ==
    [run |-> run, recipients |-> member, live_class |-> name,
     subject |-> "Your class on " \o cfg[name].title \o " is today"]

\* The run of send_live_class_reminder: the classes still to do, and the
\* date of each run so far.
IdleReminder == [pc |-> "idle", todo |-> <<>>, days |-> <<>>]

\* The scheduler starts send_live_class_reminder: the get_all of lines 76-82.
StartReminder(today, order) ==
    /\ reminder.pc \in {"idle", "done"}
    /\ Len(reminder.days) < MaxReminderRuns
    /\ order \in Orders(ClassesOn(today))
    /\ reminder' = [pc |-> IF order = <<>> THEN "done" ELSE "send",
                    todo |-> order, days |-> Append(reminder.days, today)]
    /\ UNCHANGED <<cfg, rec, lessons, job, notifications, attendance, sweep, outbox, webhook, playback, calendar>>

\* One turn of the outer loop: a mail to every student of the class's batch.
RemindClass(students) ==
    /\ reminder.pc = "send"
    /\ LET name == Head(reminder.todo)
           rest == Tail(reminder.todo)
       IN  /\ students \in Orders(Students(cfg[name].batch_name))
           /\ outbox' = outbox \o
                 [i \in 1..Len(students) |->
                    ReminderMail(Len(reminder.days), name, students[i])]
           /\ reminder' = [reminder EXCEPT !.pc = IF rest = <<>> THEN "done" ELSE "send",
                                           !.todo = rest]
    /\ UNCHANGED <<cfg, rec, lessons, job, notifications, attendance, sweep, webhook, playback, calendar>>
----------------------------------------------------------------------------
(* HMAC-SHA256 (hmac.new(key, msg, hashlib.sha256).hexdigest()) *)

\* A string is the sequence of its bytes; a 32-bit word is <<high, low>>, its
\* two 16-bit halves.
HalfWord == 65536

Sha256K ==
    << <<17034, 12184>>, <<28983, 17553>>, <<46528, 64463>>, <<59829, 56229>>,
       <<14678, 49755>>, <<23025, 4593>>, <<37439, 33444>>, <<43804, 24277>>,
       <<55303, 43672>>, <<4739, 23297>>, <<9265, 34238>>, <<21772, 32195>>,
       <<29374, 23924>>, <<32990, 45566>>, <<39900, 1703>>, <<49563, 61812>>,
       <<58523, 27073>>, <<61374, 18310>>, <<4033, 40390>>, <<9228, 41420>>,
       <<11753, 11375>>, <<19060, 33962>>, <<23728, 43484>>, <<30457, 35034>>,
       <<38974, 20818>>, <<43057, 50797>>, <<45059, 10184>>, <<48985, 32711>>,
       <<50912, 3059>>, <<54695, 37191>>, <<1738, 25425>>, <<5161, 10599>>,
       <<10167, 2693>>, <<11803, 8504>>, <<19756, 28156>>, <<21304, 3347>>,
       <<25866, 29524>>, <<30314, 2747>>, <<33218, 51502>>, <<37490, 11397>>,
       <<41663, 59553>>, <<43034, 26187>>, <<49739, 35696>>, <<51052, 20899>>,
       <<53650, 59417>>, <<54937, 1572>>, <<62478, 13701>>, <<4202, 41072>>,
       <<6564, 49430>>, <<7735, 27656>>, <<10056, 30540>>, <<13488, 48309>>,
       <<14620, 3251>>, <<20184, 43594>>, <<23452, 51791>>, <<26670, 28659>>,
       <<29839, 33518>>, <<30885, 25455>>, <<33992, 30740>>, <<36039, 520>>,
       <<37054, 65530>>, <<42064, 27883>>, <<48889, 41975>>, <<50801, 30962>> >>

Sha256H0 ==
    << <<27145, 58983>>, <<47975, 44677>>, <<15470, 62322>>, <<42319, 62778>>,
       <<20750, 21119>>, <<39685, 26764>>, <<8067, 55723>>, <<23520, 52505>> >>

\* Bitwise exclusive or, choice and majority of three n-bit numbers.
RECURSIVE Bitwise(_, _, _, _, _)
Bitwise(op, a, b, c, n) ==
    IF n = 0 THEN 0
    ELSE LET x == a % 2
             y == b % 2
             z == c % 2
             bit == CASE op = "xor" -> (x + y + z) % 2
                      [] op = "ch"  -> IF x = 1 THEN y ELSE z
                      [] OTHER      -> IF x + y + z >= 2 THEN 1 ELSE 0
         IN  bit + 2 * Bitwise(op, a \div 2, b \div 2, c \div 2, n - 1)

WordOp(op, u, v, w) ==
    <<Bitwise(op, u[1], v[1], w[1], 16), Bitwise(op, u[2], v[2], w[2], 16)>>

\* u + v modulo 2^32
WordAdd(u, v) ==
    LET low == u[2] + v[2]
    IN  <<(u[1] + v[1] + low \div HalfWord) % HalfWord, low % HalfWord>>

RotR(w, n) ==
    LET s == IF n >= 16 THEN <<w[2], w[1]>> ELSE w
        k == n % 16
        p == 2 ^ k
        q == 2 ^ (16 - k)
    IN  IF k = 0 THEN s
        ELSE <<(s[1] \div p) + (s[2] % p) * q, (s[2] \div p) + (s[1] % p) * q>>

\* w >> n for n < 16
ShR(w, n) ==
    LET p == 2 ^ n
        q == 2 ^ (16 - n)
    IN  <<w[1] \div p, (w[2] \div p) + (w[1] % p) * q>>

\* The message with the padding of SHA-256: 0x80, zeros, the length in bits.
RECURSIVE Zeros(_)
Zeros(n) == IF n = 0 THEN <<>> ELSE <<0>> \o Zeros(n - 1)

Sha256Pad(msg) ==
    LET len   == Len(msg)
        zeros == (119 - (len % 64)) % 64
        bits  == len * 8
    IN  msg \o <<128>> \o Zeros(zeros) \o Zeros(6) \o <<bits \div 256, bits % 256>>

\* The sixteen words of block b (from 0) of the padded message.
BlockWords(padded, b) ==
    [i \in 1..16 |->
        LET o == b * 64 + (i - 1) * 4
        IN  <<padded[o + 1] * 256 + padded[o + 2], padded[o + 3] * 256 + padded[o + 4]>>]

\* Word i of the message schedule, from the words before it.
ScheduleWord(w, i) ==
    WordAdd(WordAdd(w[i - 16],
                    WordOp("xor", RotR(w[i - 15], 7), RotR(w[i - 15], 18), ShR(w[i - 15], 3))),
            WordAdd(w[i - 7],
                    WordOp("xor", RotR(w[i - 2], 17), RotR(w[i - 2], 19), ShR(w[i - 2], 10))))

RECURSIVE Schedule(_)
Schedule(w) ==
    IF Len(w) = 64 THEN w
    ELSE Schedule(Append(w, ScheduleWord(w, Len(w) + 1)))

\* The working variables <<a, ..., h>> after a round with the sums t1 and t2.
RoundStep(v, t1, t2) ==
    <<WordAdd(t1, t2), v[1], v[2], v[3], WordAdd(v[4], t1), v[5], v[6], v[7]>>

\* The 64 rounds on the working variables v, from round i on (the test of
\* Len(v) makes the evaluation proceed round by round).
RECURSIVE Rounds(_, _, _)
Rounds(v, w, i) ==
    IF Len(v) # 8 \/ i > 64 THEN v
    ELSE Rounds(RoundStep(v,
                    WordAdd(WordAdd(WordAdd(v[8],
                                WordOp("xor", RotR(v[5], 6), RotR(v[5], 11), RotR(v[5], 25))),
                                WordAdd(WordOp("ch", v[5], v[6], v[7]), Sha256K[i])),
                            w[i]),
                    WordAdd(WordOp("xor", RotR(v[1], 2), RotR(v[1], 13), RotR(v[1], 22)),
                            WordOp("maj", v[1], v[2], v[3]))),
                w, i + 1)

AddWords(h, v) == [i \in 1..8 |-> WordAdd(h[i], v[i])]

Compress(h, words) == AddWords(h, Rounds(h, Schedule(words), 1))

RECURSIVE Sha256Blocks(_, _, _)
Sha256Blocks(h, padded, b) ==
    IF b * 64 >= Len(padded) THEN h
    ELSE Sha256Blocks(Compress(h, BlockWords(padded, b)), padded, b + 1)

\* The 32 bytes of the eight words of h, high byte first.
WordBytes(h) ==
    [i \in 1..32 |->
        LET half == h[(i + 3) \div 4][IF (i - 1) % 4 < 2 THEN 1 ELSE 2]
        IN  IF i % 2 = 1 THEN half \div 256 ELSE half % 256]

\* hashlib.sha256(msg).digest(), as 32 bytes
Sha256(msg) == WordBytes(Sha256Blocks(Sha256H0, Sha256Pad(msg), 0))

\* hmac.new(key, msg, hashlib.sha256).digest() for a key of at most 64 bytes
XorBytes(block, byte) == [i \in 1..Len(block) |-> Bitwise("xor", block[i], byte, 0, 8)]

HmacOfBlock(block, msg) == Sha256(XorBytes(block, 92) \o Sha256(XorBytes(block, 54) \o msg))

HmacSha256(key, msg) == HmacOfBlock(key \o Zeros(64 - Len(key)), msg)

HexDigits == <<"0", "1", "2", "3", "4", "5", "6", "7", "8", "9", "a", "b", "c", "d", "e", "f">>

\* The characters of a lowercase hexadecimal string.
LowerHex == {"0", "1", "2", "3", "4", "5", "6", "7", "8", "9", "a", "b", "c", "d", "e", "f"}

\* bytes.hex(): two lowercase digits per byte, as a sequence of characters
Hex(bytes) ==
    [i \in 1..(2 * Len(bytes)) |->
        LET byte == bytes[(i + 1) \div 2]
        IN  HexDigits[(IF i % 2 = 1 THEN byte \div 16 ELSE byte % 16) + 1]]

HmacSha256Hex(key, msg) == Hex(HmacSha256(key, msg))

----------------------------------------------------------------------------
(* zoom_webhook: the webhook endpoint (lms/lms/api.py) *)

\* The webhook secret tokens: "S" and "S2".
Secrets == {<<83>>, <<83, 50>>}

\* The plainToken values of the handshake: "abc123" and "t".
PlainTokens == {<<97, 98, 99, 49, 50, 51>>, <<116>>}

\* The signed material of a delivery (timestamp and raw body): "v0:1:b1" and
\* "v0:2:b2".
Messages == {<<118, 48, 58, 49, 58, 98, 49>>, <<118, 48, 58, 50, 58, 98, 50>>}

\* hmac.new(key, msg, hashlib.sha256).hexdigest() of the keys and strings above
HmacHex == [key \in Secrets, msg \in PlainTokens \cup Messages |-> HmacSha256Hex(key, msg)]

\* The digit whose lowest bit differs.
FlippedDigit(c) ==
    CASE c = "0" -> "1" [] c = "1" -> "0" [] c = "2" -> "3" [] c = "3" -> "2"
      [] c = "4" -> "5" [] c = "5" -> "4" [] c = "6" -> "7" [] c = "7" -> "6"
      [] c = "8" -> "9" [] c = "9" -> "8" [] c = "a" -> "b" [] c = "b" -> "a"
      [] c = "c" -> "d" [] c = "d" -> "c" [] c = "e" -> "f" [] OTHER -> "e"

\* The signature header of a delivery: absent, or a string.
NoSignature == [present |-> FALSE, value |-> <<>>]

\* A signature header holding the string value.
Signature(value) == [present |-> TRUE, value |-> value]

\* The signatures callers supply for the message "v0:1:b1": none, the digest
\* under either secret, the same with one bit of its last digit changed, a
\* truncated digest, no hex at all.
SignatureHeaders ==
    {NoSignature}
    \cup { Signature(HmacHex[key, <<118, 48, 58, 49, 58, 98, 49>>]) : key \in Secrets }
    \cup { Signature([HmacHex[key, <<118, 48, 58, 49, 58, 98, 49>>] EXCEPT ![64] = FlippedDigit(@)])
             : key \in Secrets }
    \cup { Signature(SubSeq(HmacHex[<<83>>, <<118, 48, 58, 49, 58, 98, 49>>], 1, 63)),
           Signature(<<"n", "o", "h", "e", "x">>) }

NoToken == <<>>

\* A request: the body is JSON or not; event, plainToken, uuid and files are
\* what the JSON holds; message is the signed material.
Request(body, event, plainToken, uuid, message, signature) ==
    [body |-> body, event |-> event, plainToken |-> plainToken, uuid |-> uuid,
     files |-> IF uuid = "" THEN <<>> ELSE <<AudioOnly, SpeakerVideo>>,
     message |-> message, signature |-> signature]

\* The POST requests delivered to the endpoint: handshakes with and without
\* a token; recording events under each signature, with a signature made
\* for another message, and without a meeting uuid; another event; a body
\* that is no JSON.
WebhookRequests ==
    { Request("json", "endpoint.url_validation", t, "", <<118, 48, 58, 49, 58, 98, 49>>, NoSignature)
        : t \in PlainTokens \cup {NoToken} }
    \cup
    { Request("json", "recording.completed", NoToken, "uuid-1", <<118, 48, 58, 49, 58, 98, 49>>, sig)
        : sig \in SignatureHeaders }
    \cup
    { Request("json", "recording.completed", NoToken, u, <<118, 48, 58, 50, 58, 98, 50>>,
              Signature(HmacHex[key, msg]))
        : u \in {"uuid-1", ""}, key \in Secrets, msg \in {<<118, 48, 58, 50, 58, 98, 50>>} }
    \cup
    { Request("json", "recording.completed", NoToken, "uuid-1", <<118, 48, 58, 50, 58, 98, 50>>,
              Signature(HmacHex[<<83>>, <<118, 48, 58, 49, 58, 98, 49>>])) }
    \cup
    { Request(b, "meeting.started", NoToken, "", <<118, 48, 58, 49, 58, 98, 49>>, sig)
        : b \in {"json", "malformed"},
          sig \in {NoSignature, Signature(HmacHex[<<83>>, <<118, 48, 58, 49, 58, 98, 49>>])} }

\* frappe.enqueue puts the job on the queue or raises.
EnqueueOutcomes == {"queued", "raises"}

\* A JSON value of a response body.
JsonObject(members) == [type |-> "object", value |-> members]

JsonString(chars) == [type |-> "string", value |-> chars]

\* hmac.compare_digest: every position is compared, whatever the others gave.
RECURSIVE Differences(_, _, _)
Differences(a, b, i) ==
    IF i > Len(a) THEN 0
    ELSE (IF a[i] = b[i] THEN 0 ELSE 1) + Differences(a, b, i + 1)

CompareDigest(a, b) == Len(a) = Len(b) /\ Differences(a, b, 1) = 0

AcceptAnySignature(secret, message, signature) == TRUE

\* The Signature Verifier: a missing header, a malformed signature and a
\* mismatch all give FALSE.
VerifyZoomSignature(secret, message, signature) ==
    /\ signature.present
    /\ Len(signature.value) = 64
    /\ \A i \in 1..Len(signature.value) : signature.value[i] \in LowerHex
    /\ CompareDigest(HmacHex[secret, message], signature.value)

ChallengeResponseAsMessage(secret, token) ==
    JsonObject([message |-> JsonObject([plainToken |-> JsonString(token),
                                        encryptedToken |-> JsonString(HmacHex[secret, token])])])

\* The Challenge Responder: the body of the handshake response.
ChallengeResponse(secret, token) ==
    JsonObject([plainToken |-> JsonString(token),
                encryptedToken |-> JsonString(HmacHex[secret, token])])

StatusUnauthorizedOnBadSignature(logged) == IF logged = "invalid_signature" THEN 401 ELSE 200

\* frappe.local.response.http_status_code = 200, whatever happened.
HttpStatusCode(logged) == 200

\* The acknowledgement of a delivery, and what was written to the error log.
Acknowledge(logged) ==
    [response |-> [status |-> HttpStatusCode(logged),
                   body |-> JsonObject([status |-> JsonString("ok")])],
     enqueue |-> FALSE, logged |-> logged]

\* The Event Dispatcher: the response to a request, whether a job is
\* enqueued, and the failure recorded for the operator.
Dispatch(secret, request, enqueue_outcome) ==
    IF request.body = "malformed" THEN Acknowledge("invalid_json")
    ELSE IF request.event = "endpoint.url_validation"
    THEN IF request.plainToken = NoToken
         THEN Acknowledge("missing_fields")
         ELSE [response |-> [status |-> HttpStatusCode(""),
                             body |-> ChallengeResponse(secret, request.plainToken)],
               enqueue |-> FALSE, logged |-> ""]
    ELSE IF ~VerifyZoomSignature(secret, request.message, request.signature)
    THEN Acknowledge("invalid_signature")
    ELSE IF request.event = "recording.completed"
    THEN IF request.uuid = ""
         THEN Acknowledge("missing_fields")
         ELSE IF enqueue_outcome = "raises"
         THEN Acknowledge("exception")
         ELSE [Acknowledge("") EXCEPT !.enqueue = TRUE]
    ELSE Acknowledge("")

NoWebhook(secret) == [secret |-> secret, handled |-> <<>>]

\* One delivery: the handler answers it and, for a verified recording event,
\* puts process_zoom_recording(meeting_uuid, recording_files) on the queue.
ZoomWebhook(request, enqueue_outcome) ==
    /\ Len(webhook.handled) < MaxRequests
    /\ LET result == Dispatch(webhook.secret, request, enqueue_outcome)
       IN  /\ result.enqueue => \E j \in JobIds : job[j].pc = "idle"
           /\ webhook' = [webhook EXCEPT !.handled =
                            Append(@, [request |-> request, response |-> result.response,
                                       enqueued |-> result.enqueue, logged |-> result.logged])]
           /\ job' = IF result.enqueue
                     THEN LET j == CHOOSE j \in JobIds :
                                      /\ job[j].pc = "idle"
                                      /\ \A i \in JobIds : i < j => job[i].pc # "idle"
                          IN  [job EXCEPT ![j] = [IdleJob EXCEPT !.pc = "queued",
                                                                 !.meeting_uuid = request.uuid,
                                                                 !.recording_files = request.files]]
                     ELSE job
    /\ UNCHANGED <<cfg, rec, lessons, notifications, attendance, sweep, outbox, reminder, playback,
                   calendar>>

----------------------------------------------------------------------------
(* get_zoom_recording_playback: the playback endpoint (lms/lms/api.py) *)

Users == {"s1@lms", "s2@lms", "guest@lms", "moderator@lms", "instructor@lms"}

Moderators == {"moderator@lms"}

Instructors == {"instructor@lms"}

\* The course field of the Course Lesson documents.
LessonCourse(lesson) == IF lesson = "LESSON-1" THEN "COURSE-1" ELSE ""

\* The courses child table of the LMS Batch documents.
BatchCourses(batch_name) ==
    CASE batch_name = "BATCH-1" -> <<"COURSE-1", "COURSE-2">>
      [] batch_name = "BATCH-2" -> <<"COURSE-2">>
      [] OTHER                  -> <<>>

\* The LMS Enrollment table: the memberships of the courses.
Memberships ==
    { [course |-> "COURSE-1", member |-> "s1@lms"],
      [course |-> "COURSE-2", member |-> "s2@lms"] }

\* frappe.db.get_value("Course Lesson", lesson, "course"): nothing for a
\* lesson that does not exist.
CourseOfLesson(lesson) == IF lesson \in lessons THEN LessonCourse(lesson) ELSE ""

CourseOfBatch(batch_name) ==
    IF BatchCourses(batch_name) = <<>> THEN "" ELSE BatchCourses(batch_name)[1]

\* Step 1: by the lesson if the record has a lesson reference, else by the
\* batch ("if live_class.lesson: ... elif live_class.batch_name: ...").
ResolveCourse(live_class) ==
    IF live_class.lesson # "" THEN CourseOfLesson(live_class.lesson)
    ELSE IF live_class.batch_name # "" THEN CourseOfBatch(live_class.batch_name)
    ELSE ""

\* get_membership(course, user)
GetMembership(course, user) == [course |-> course, member |-> user] \in Memberships

IsAuthorizedAnyone(course, user) == TRUE

IsAuthorizedByEnrollment(course, user) == GetMembership(course, user)

\* Step 3: enrolled in the course, or moderator, or instructor.
IsAuthorized(course, user) ==
    GetMembership(course, user) \/ user \in Moderators \/ user \in Instructors

\* The provider is not asked for a fresh playback URL, gives one, or fails.
RefreshOutcomes == {"not_requested", "fresh_url", "fails"}

\* The denial: no URL, no passcode, no call to the provider.
Denied(why) ==
    [authorized |-> FALSE, why |-> why, playback_url |-> "", passcode |-> "", calls |-> <<>>]

\* The Playback Authorizer, steps 1 to 4.
PlaybackResult(user, name, refresh) ==
    LET course == ResolveCourse(cfg[name])
    IN  IF course = "" THEN Denied("no_course")
        ELSE IF ~IsAuthorized(course, user) THEN Denied("not_enrolled")
        ELSE [authorized |-> TRUE, why |-> "",
              playback_url |-> IF refresh = "fresh_url" THEN "https://zoom/play/fresh"
                               ELSE rec[name].recording_url,
              passcode |-> rec[name].recording_passcode,
              calls |-> IF refresh = "not_requested" THEN <<>> ELSE <<"token", "recordings">>]

\* One request to the playback endpoint by a logged-in user.
GetZoomRecordingPlayback(user, name, refresh) ==
    /\ Len(playback) < MaxPlaybacks
    /\ playback' = Append(playback,
                          [user |-> user, name |-> name,
                           lesson_exists |-> cfg[name].lesson \in lessons,
                           result |-> PlaybackResult(user, name, refresh)])
    /\ UNCHANGED <<cfg, rec, lessons, job, notifications, attendance, sweep, outbox,
                   reminder, webhook, calendar>>

----------------------------------------------------------------------------
(* LMSLiveClass.after_insert: the calendar event of a new live class *)

\* The users who schedule live classes.
InsertingUsers == {"instructor@lms", "s1@lms", "moderator@lms", SessionUser}

\* The Google Calendar table: two enabled calendars, a disabled one.
GoogleCalendars ==
    { [name |-> "GCAL-1", user |-> "instructor@lms", enable |-> 1],
      [name |-> "GCAL-2", user |-> "s1@lms", enable |-> 1],
      [name |-> "GCAL-3", user |-> "moderator@lms", enable |-> 0] }

\* The Course Instructor rows of the LMS Batch documents.
CourseInstructors ==
    { [parent |-> "BATCH-1", instructor |-> "instructor@lms"],
      [parent |-> "BATCH-2", instructor |-> "instructor@lms"],
      [parent |-> "BATCH-2", instructor |-> "s2@lms"] }

\* frappe.db.get_value("Google Calendar", {"user": user, "enable": 1}, "name")
GetCalendar(user) ==
    IF \E c \in GoogleCalendars : c.user = user /\ c.enable = 1
    THEN (CHOOSE c \in GoogleCalendars : c.user = user /\ c.enable = 1).name
    ELSE ""

\* A list holding each element of S once.
RECURSIVE ListOf(_)
ListOf(S) ==
    IF S = {} THEN <<>>
    ELSE LET x == CHOOSE x \in S : TRUE IN <<x>> \o ListOf(S \ {x})

\* frappe.get_all("Course Instructor", {..., "parent": batch_name}, pluck="instructor")
Instructing(batch_name) ==
    ListOf({r.instructor : r \in {x \in CourseInstructors : x.parent = batch_name}})

\* The list before list(set(...)): the members, the session user, the instructors.
Gathered(batch_name, user) ==
    (ListOf(Students(batch_name)) \o <<user>>) \o Instructing(batch_name)

KeepDuplicates(participants) == participants

\* participants = list(set(participants))
ListOfSet(participants) ==
    ListOf({participants[i] : i \in 1..Len(participants)})

\* The Event Participants document of a participant.
EventParticipant(participant, event_name) ==
    [reference_doctype |-> "User", reference_docname |-> participant,
     email |-> participant, parent |-> event_name]

\* The name the Event document gets when it is saved.
EventName(name) == "EV-" \o name

\* The Event after create_event and add_event_participants; the rows are
\* saved in the order the loop takes the participants in.
EventDoc(name, calendar_name, participants, order) ==
    [name |-> EventName(name),
     subject |-> "Live Class on " \o cfg[name].title,
     event_type |-> "Public",
     starts_on |-> cfg[name].date,
     event_participants |->
         [i \in 1..Len(participants) |-> EventParticipant(participants[order[i]], EventName(name))],
     sync_with_google_calendar |-> 1,
     google_calendar |-> calendar_name]

\* A record after_insert has not run for.
NotInserted == [inserted |-> FALSE, owner |-> "", event |-> "", events |-> <<>>]

\* The participants of the event of a record a user inserts.
ParticipantsOf(name, user) == ListOfSet(Gathered(cfg[name].batch_name, user))

\* after_insert of the record, with user as frappe.session.user.
AfterInsert(name, user, order) ==
    /\ ~calendar[name].inserted
    /\ LET calendar_name == GetCalendar(user)
           event == EventDoc(name, calendar_name, ParticipantsOf(name, user), order)
       IN  calendar' = [calendar EXCEPT ![name] =
             IF calendar_name # ""
             THEN [inserted |-> TRUE, owner |-> user, event |-> event.name,
                   events |-> <<event>>]
             ELSE [NotInserted EXCEPT !.inserted = TRUE, !.owner = user]]
    /\ UNCHANGED <<cfg, rec, lessons, job, notifications, attendance, sweep, outbox,
                   reminder, webhook, playback>>

----------------------------------------------------------------------------
(* Specifications *)

\* Everything but the LMS Live Class table.
InitOthers(secret) ==
    /\ lessons = LessonRefs
    /\ job = [j \in JobIds |-> IdleJob]
    /\ notifications = <<>>
    /\ attendance = [n \in Names |-> NoAttendance]
    /\ sweep = IdleSweep
    /\ outbox = <<>>
    /\ reminder = IdleReminder
    /\ webhook = NoWebhook(secret)
    /\ playback = <<>>
    /\ calendar = [n \in Names |-> NotInserted]

InitWith(secret) ==
    /\ cfg \in LiveClassConfigs
    /\ rec = [n \in Names |-> NoRecording]
    /\ InitOthers(secret)

Init == InitWith(<<83>>)

Next ==
    \/ \E j \in JobIds, u \in MeetingUuids, fs \in RecordingFileLists : Enqueue(j, u, fs)
    \/ \E j \in JobIds : Lookup(j)
    \/ \E j \in JobIds : CheckProcessed(j)
    \/ \E j \in JobIds, o \in AuthenticateOutcomes : Authenticate(j, o)
    \/ \E j \in JobIds, r \in RecordingsOutcomes : FetchRecordings(j, r)
    \/ \E j \in JobIds : StoreMetadata(j)
    \/ \E j \in JobIds, o \in NotifyOutcomes : Notify(j, o)
    \/ \E l \in LessonRefs : DeleteLesson(l)

\* Jobs of several workers: the steps of different runs interleave.
Spec == Init /\ [][Next]_vars

\* One worker: a run starts only when no other run is under way.
SeqNext ==
    \/ \E j \in JobIds, u \in MeetingUuids, fs \in RecordingFileLists : Enqueue(j, u, fs)
    \/ \E j \in JobIds : NoneRunning /\ Lookup(j)
    \/ \E j \in JobIds : CheckProcessed(j)
    \/ \E j \in JobIds, o \in AuthenticateOutcomes : Authenticate(j, o)
    \/ \E j \in JobIds, r \in RecordingsOutcomes : FetchRecordings(j, r)
    \/ \E j \in JobIds : StoreMetadata(j)
    \/ \E j \in JobIds, o \in NotifyOutcomes : Notify(j, o)
    \/ \E l \in LessonRefs : DeleteLesson(l)

SeqSpec == Init /\ [][SeqNext]_vars

\* The ingestion of deliveries whose timestamps the provider set in any order.
TimestampNext ==
    \/ \E j \in JobIds, fs \in TimestampFileLists : Enqueue(j, "uuid-1", fs)
    \/ \E j \in JobIds : Lookup(j)
    \/ \E j \in JobIds : CheckProcessed(j)
    \/ \E j \in JobIds, o \in AuthenticateOutcomes : Authenticate(j, o)
    \/ \E j \in JobIds, r \in RecordingsOutcomes : FetchRecordings(j, r)
    \/ \E j \in JobIds : StoreMetadata(j)
    \/ \E j \in JobIds, o \in NotifyOutcomes : Notify(j, o)
    \/ \E l \in LessonRefs : DeleteLesson(l)

TimestampSpec == Init /\ [][TimestampNext]_vars

\* The scheduler runs update_attendance, one run after the other.
SweepNext ==
    \/ \E order \in Orders(Selected(attendance)) : StartSweep(order)
    \/ \E a \in AuthenticateOutcomes, r \in AttendanceOutcomes : GetAttendance(a, r)
    \/ CreateAttendance
    \/ UpdateAttendeesCount

SweepSpec == Init /\ [][SweepNext]_vars

\* The scheduler runs send_live_class_reminder, one run after the other.
ReminderNext ==
    \/ \E today \in Dates : \E order \in Orders(ClassesOn(today)) : StartReminder(today, order)
    \/ \E b \in {cfg[n].batch_name : n \in Names} :
          \E students \in Orders(Students(b)) : RemindClass(students)

ReminderSpec == Init /\ [][ReminderNext]_vars

\* The provider delivers requests to the endpoint of an account with any of
\* the secrets.
WebhookInit == \E secret \in Secrets : InitWith(secret)

WebhookNext ==
    \E request \in WebhookRequests, o \in EnqueueOutcomes : ZoomWebhook(request, o)

WebhookSpec == WebhookInit /\ [][WebhookNext]_vars

\* The live classes are inserted, each by one of the users.
CalendarNext ==
    \E name \in Names, user \in InsertingUsers :
        \E order \in Orders(1..Len(ParticipantsOf(name, user))) : AfterInsert(name, user, order)

CalendarSpec == Init /\ [][CalendarNext]_vars

\* Playback is requested for classes with or without a lesson, before or
\* after the recording of LC1 was ingested, while lessons are deleted.
PlaybackInit ==
    /\ cfg \in {[c EXCEPT !["LC1"].lesson = l] : c \in LiveClassConfigs, l \in LessonRefs \cup {""}}
    /\ rec \in {[n \in Names |-> NoRecording],
                [n \in Names |-> IF n = "LC1"
                                 THEN SetValue(NoRecording, Metadata(SpeakerVideo, "passcode-1"))
                                 ELSE NoRecording]}
    /\ InitOthers(<<83>>)

PlaybackNext ==
    \/ \E user \in Users, name \in Names, refresh \in RefreshOutcomes :
          GetZoomRecordingPlayback(user, name, refresh)
    \/ \E l \in LessonRefs : DeleteLesson(l)

PlaybackSpec == PlaybackInit /\ [][PlaybackNext]_vars

----------------------------------------------------------------------------
(* Vocabulary of the properties *)

\* The record a run works on ("" when its uuid matches none).
Target(j) == job[j].live_class.name

\* The recording fields a run stores: those of its video file and passcode.
HoldsMetadataOf(n, j) ==
    /\ rec[n].recording_processed
    /\ rec[n].zoom_recording_id   = job[j].video_file.id
    /\ rec[n].recording_url       = job[j].video_file.play_url
    /\ rec[n].recording_passcode  = job[j].recording_passcode
    /\ rec[n].recording_duration  = DurationSeconds(job[j].video_file)
    /\ rec[n].recording_file_size = job[j].video_file.file_size

Writers(n) == {j \in JobIds : job[j].wrote /\ Target(j) = n}

NotificationsOf(n) ==
    {i \in 1..Len(notifications) : notifications[i].document_name = n}

SameEvent(j, k) ==
    /\ job[j].meeting_uuid = job[k].meeting_uuid
    /\ job[j].recording_files = job[k].recording_files

Started(j) == job[j].pc \notin {"idle", "queued"}

\* The eligibility of a descriptor, as section 4.4 step 4 of the design states it.
Eligible(file) ==
    file.file_type = "MP4" /\ file.recording_type \in AllowedRecordingTypes

NoEligibleDescriptor(files) == \A i \in 1..Len(files) : ~Eligible(files[i])

NoRecordMatches(uuid) == \A n \in Names : cfg[n].uuid # uuid

NotCloudRecord(uuid) == \E n \in Names : cfg[n].uuid = uuid /\ cfg[n].auto_recording # "Cloud"

\* The recordings call of the run failed: no response, or a status outside 2xx.
RecordingsCallFailed(j) ==
    \/ job[j].response.kind = "network_error"
    \/ job[j].response.kind = "response"
       /\ ~(job[j].response.status >= 200 /\ job[j].response.status < 300)

\* The run ended in an except clause after its recordings call.
FailedOnProviderError(j) ==
    /\ job[j].pc = "done"
    /\ job[j].calls = <<"token", "recordings">>
    /\ job[j].log \in {"http_error", "exception"}
    /\ ~job[j].wrote

\* No provider call of the run failed.
ProviderCallsSucceeded(j) ==
    /\ job[j].pc = "done"
    /\ \/ job[j].response.kind = "none"
       \/ job[j].response.kind = "response" /\ job[j].response.status = 200
          /\ job[j].response.body # "not_json"

----------------------------------------------------------------------------
(* C1..C10: idempotence, concurrency and failure handling of the ingestion *)

\* C1: a run that starts on a record whose recording_processed is already true
\* changes no record, calls the provider neither for a token nor for the
\* recordings, creates no notification, and returns.
C1_ProcessedRecordIsSkipped ==
    [][\A j \in JobIds :
          (job'[j] # job[j] /\ job'[j].seen_processed)
          => /\ rec' = rec
             /\ notifications' = notifications
             /\ job'[j].calls = <<>>
             /\ ~job'[j].wrote /\ ~job'[j].notified
             /\ job'[j].pc \in {"check", "done"}]_vars

\* C1 witness: a finished run for a processed cloud record with an eligible file.
C1_Witness ==
    \E j \in JobIds :
        /\ job[j].pc = "done" /\ job[j].seen_processed
        /\ job[j].live_class.auto_recording = "Cloud"
        /\ ~NoEligibleDescriptor(job[j].recording_files)

\* C2: with runs that do not overlap, once recording_processed is true the flag
\* and the five recording fields of the record never change again (so the flag
\* goes from false to true at most once).
C2_ProcessedOnceThenFrozen ==
    [][\A n \in Names : rec[n].recording_processed => rec'[n] = rec[n]]_vars

\* C2 witness: after a run stored the metadata, a later delivery with another
\* eligible file list has run to its end.
C2_Witness ==
    \E k, j \in JobIds :
        /\ k < j /\ job[k].wrote /\ job[j].pc = "done"
        /\ job[j].meeting_uuid = job[k].meeting_uuid
        /\ job[j].recording_files # job[k].recording_files
        /\ ~NoEligibleDescriptor(job[j].recording_files)

\* C3: of two concurrent runs for the same recording.completed event at most
\* one passes the idempotence check and performs the persisting update.
C3_AtMostOneRunPersists ==
    \A j, k \in JobIds :
        (j # k /\ SameEvent(j, k)) => ~(job[j].wrote /\ job[k].wrote)

\* C4: at most one "recording available" notification exists for a record.
C4_AtMostOneNotification ==
    \A n \in Names : Cardinality(NotificationsOf(n)) <= 1

\* C5: a run whose recordings call failed (non-2xx status, network error or
\* timeout) has stored nothing and created no notification.
C5_FailedCallLeavesRecord ==
    \A j \in JobIds :
        RecordingsCallFailed(j)
        => /\ ~job[j].wrote /\ ~job[j].notified
           /\ (Writers(Target(j)) = {} => ~rec[Target(j)].recording_processed)

\* C6: after a run failed on a provider error, a later run for the same event
\* whose provider calls succeed ends with the record processed and holding the
\* stored metadata.
C6_RetryAfterFailureSucceeds ==
    \A k, j \in JobIds :
        (k < j /\ SameEvent(k, j) /\ FailedOnProviderError(k) /\ ProviderCallsSucceeded(j))
        => \E w \in Writers(Target(j)) : w <= j /\ HoldsMetadataOf(Target(j), w)

\* C6 witness: the retry itself stored the metadata after the failed run.
C6_Witness ==
    \E k, j \in JobIds :
        /\ k < j /\ SameEvent(k, j) /\ FailedOnProviderError(k)
        /\ ProviderCallsSucceeded(j) /\ job[j].wrote

\* C7: no run of process_zoom_recording ends by an exception leaving it.
C7_NoErrorEscapes ==
    \A j \in JobIds : job[j].pc # "raised"

\* C8: a run whose notification failed after the update leaves the record
\* processed with the stored fields, and the failure is in the error log.
C8_NotificationFailureKeepsUpdate ==
    \A j \in JobIds :
        (job[j].pc = "done" /\ job[j].wrote /\ ~job[j].notified)
        => /\ job[j].log = "exception"
           /\ \E w \in Writers(Target(j)) : HoldsMetadataOf(Target(j), w)

\* C8 witness: a finished run that stored the metadata and created no notification.
C8_Witness ==
    \E j \in JobIds : job[j].pc = "done" /\ job[j].wrote /\ ~job[j].notified

C10_FlagComesWithFields ==
    \A n \in Names :
        rec[n].recording_processed => \E w \in Writers(n) : HoldsMetadataOf(n, w)

\* C10 witness: another run is under way right after a run's update.
C10_Witness ==
    \E j, k \in JobIds :
        /\ j # k /\ job[j].pc = "notify" /\ Running(k)
        /\ Target(k) = Target(j)

\* C11: every recording notification is addressed to the host of the live
\* class it is about, not to the user the background job runs as.
C11_NotificationGoesToHost ==
    \A i \in 1..Len(notifications) :
        notifications[i].for_user = cfg[notifications[i].document_name].host

\* The whole seconds from t1 to t2, field by field.
SecondsBetween(t1, t2) ==
    (t2[1] - t1[1]) * 86400 + (t2[2] - t1[2]) * 3600 + (t2[3] - t1[3]) * 60 + (t2[4] - t1[4])

C13_FailureDoesNotAbortSweep ==
    SweepEnded =>
        \A i \in 1..Len(sweep.selected) :
            sweep.selected[i] \in sweep.processed \cup sweep.failed

\* C14: a run selects exactly the records with a uuid and no attendees, and
\* a record with stored attendees keeps its count and its participant rows.
C14_StoredAttendanceIsSkipped ==
    [][ /\ sweep'.run # sweep.run =>
              /\ \A i \in 1..Len(sweep'.selected) :
                    /\ cfg[sweep'.selected[i]].uuid # ""
                    /\ attendance[sweep'.selected[i]].attendees = 0
                    /\ attendance[sweep'.selected[i]].rows = <<>>
              /\ \A n \in Names :
                    (cfg[n].uuid # "" /\ attendance[n].attendees = 0)
                        => \E i \in 1..Len(sweep'.selected) : sweep'.selected[i] = n
        /\ \A n \in Names :
              attendance[n].attendees # 0 => attendance'[n] = attendance[n] ]_vars

\* A second run ended after the first stored the attendance of a record: the
\* record was not selected again and holds one row per participant.
C14_Witness ==
    /\ sweep.run = 2 /\ sweep.pc = "done" /\ sweep.selected # <<>>
    /\ \E n \in Names :
          /\ attendance[n].attendees = 2 /\ Len(attendance[n].rows) = 2
          /\ \A i \in 1..Len(sweep.selected) : sweep.selected[i] # n

\* The reminders run k sent to member about the class name.
RemindersOf(k, name, member) ==
    {i \in 1..Len(outbox) : /\ outbox[i].run = k
                            /\ outbox[i].live_class = name
                            /\ outbox[i].recipients = member}

Members == {e.member : e \in BatchEnrollments}

RunEnded(k) == k < Len(reminder.days) \/ (k = Len(reminder.days) /\ reminder.pc = "done")

Handled == {webhook.handled[i] : i \in 1..Len(webhook.handled)}

ExpectedDigest(key, msg) ==
    CASE key = <<83>> /\ msg = <<97, 98, 99, 49, 50, 51>> ->
            << "b", "e", "b", "2", "9", "2", "1", "6", "0", "b", "e", "b", "0", "4", "b", "9",
               "f", "2", "f", "a", "8", "0", "f", "7", "6", "4", "6", "2", "8", "2", "b", "9",
               "2", "a", "2", "6", "1", "2", "5", "a", "c", "c", "5", "9", "c", "7", "7", "5",
               "a", "0", "9", "0", "4", "8", "a", "3", "7", "0", "a", "1", "e", "7", "9", "7" >>
      [] key = <<83>> /\ msg = <<116>> ->
            << "9", "c", "1", "c", "a", "7", "a", "6", "8", "d", "e", "2", "5", "5", "7", "5",
               "d", "a", "9", "1", "6", "7", "b", "c", "a", "a", "e", "0", "e", "0", "f", "2",
               "8", "9", "8", "5", "9", "5", "f", "6", "9", "8", "9", "3", "3", "f", "1", "6",
               "d", "f", "9", "4", "a", "7", "d", "2", "3", "9", "1", "9", "b", "7", "7", "e" >>
      [] key = <<83>> /\ msg = <<118, 48, 58, 49, 58, 98, 49>> ->
            << "9", "c", "1", "5", "3", "a", "4", "b", "a", "4", "6", "5", "a", "f", "3", "9",
               "8", "d", "f", "2", "f", "7", "3", "3", "d", "9", "b", "e", "e", "6", "a", "2",
               "d", "1", "3", "b", "6", "c", "1", "e", "4", "7", "e", "f", "1", "c", "6", "e",
               "f", "e", "3", "e", "e", "f", "4", "5", "8", "1", "0", "3", "d", "9", "b", "1" >>
      [] key = <<83>> /\ msg = <<118, 48, 58, 50, 58, 98, 50>> ->
            << "7", "1", "9", "3", "d", "d", "0", "b", "0", "5", "d", "0", "1", "0", "7", "a",
               "b", "6", "b", "2", "8", "f", "f", "0", "4", "7", "f", "3", "7", "7", "a", "7",
               "f", "f", "b", "f", "8", "c", "7", "b", "c", "6", "5", "4", "e", "4", "5", "9",
               "5", "7", "1", "d", "6", "c", "8", "3", "2", "d", "e", "f", "9", "9", "e", "0" >>
      [] key = <<83, 50>> /\ msg = <<97, 98, 99, 49, 50, 51>> ->
            << "6", "6", "5", "2", "d", "d", "6", "1", "0", "2", "5", "2", "4", "b", "8", "3",
               "a", "7", "7", "0", "8", "0", "c", "d", "0", "e", "e", "8", "2", "4", "4", "b",
               "1", "4", "9", "5", "3", "f", "d", "d", "e", "e", "6", "f", "0", "b", "f", "b",
               "b", "3", "0", "a", "d", "4", "2", "9", "0", "f", "0", "c", "a", "2", "5", "9" >>
      [] key = <<83, 50>> /\ msg = <<116>> ->
            << "4", "2", "3", "6", "b", "e", "d", "8", "e", "c", "f", "7", "a", "a", "9", "5",
               "3", "7", "9", "9", "7", "7", "1", "8", "5", "c", "1", "e", "1", "a", "c", "e",
               "c", "d", "9", "a", "a", "8", "3", "5", "1", "2", "4", "1", "d", "4", "1", "f",
               "a", "d", "1", "7", "a", "d", "d", "e", "9", "9", "7", "b", "f", "b", "7", "d" >>
      [] key = <<83, 50>> /\ msg = <<118, 48, 58, 49, 58, 98, 49>> ->
            << "7", "6", "1", "9", "4", "7", "8", "1", "3", "7", "6", "d", "c", "8", "f", "2",
               "5", "1", "c", "b", "2", "1", "c", "0", "f", "6", "4", "f", "b", "5", "e", "7",
               "a", "4", "b", "5", "4", "9", "4", "d", "a", "4", "b", "1", "8", "b", "0", "8",
               "9", "0", "5", "a", "0", "7", "8", "d", "6", "a", "8", "d", "4", "b", "e", "4" >>
      [] key = <<83, 50>> /\ msg = <<118, 48, 58, 50, 58, 98, 50>> ->
            << "e", "f", "3", "d", "a", "c", "8", "c", "e", "4", "c", "b", "7", "7", "9", "0",
               "6", "a", "d", "7", "8", "5", "f", "9", "5", "6", "7", "1", "d", "b", "3", "e",
               "1", "5", "0", "d", "f", "1", "d", "3", "6", "7", "f", "0", "d", "4", "5", "f",
               "2", "a", "3", "0", "3", "e", "0", "7", "0", "5", "e", "1", "1", "3", "b", "8" >>

\* The checks of verify_response_is_json_object and of
\* test_zoom_webhook_validation on the response to a handshake.
PassesVerification(response, secret, token) ==
    LET data == response.body
    IN  /\ response.status = 200
        /\ data.type = "object"
        /\ DOMAIN data.value = {"plainToken", "encryptedToken"}
        /\ data.value.plainToken = JsonString(token)
        /\ data.value.encryptedToken.type = "string"
        /\ Len(data.value.encryptedToken.value) = 64
        /\ \A i \in 1..64 :
              \E d \in 1..16 : data.value.encryptedToken.value[i] = HexDigits[d]
        /\ data.value.encryptedToken.value = ExpectedDigest(secret, token)

\* C17: the response to a handshake with a plainToken is a bare JSON object
\* with the members plainToken, the token of the request, and
\* encryptedToken, the 64 lowercase hex digits of HMAC-SHA256(secret, token).
C17_HandshakeResponse ==
    \A d \in Handled :
        (/\ d.request.body = "json"
         /\ d.request.event = "endpoint.url_validation"
         /\ d.request.plainToken # NoToken)
            => PassesVerification(d.response, webhook.secret, d.request.plainToken)

\* The handshake with the secret "S" and the token "abc123" was answered.
C17_Witness ==
    /\ webhook.secret = <<83>>
    /\ \E d \in Handled :
          /\ d.request.event = "endpoint.url_validation"
          /\ d.request.plainToken = <<97, 98, 99, 49, 50, 51>>
          /\ d.response.body.value.encryptedToken.value
                = ExpectedDigest(<<83>>, <<97, 98, 99, 49, 50, 51>>)

\* The signature of the request is the digest of its message under the secret.
SignatureIsGenuine(request) ==
    /\ request.signature.present
    /\ request.signature.value = ExpectedDigest(webhook.secret, request.message)

QueuedJobs == {j \in JobIds : job[j].pc # "idle"}

\* C18: a job is enqueued only for a recording event whose signature is
\* genuine; a request without a genuine signature has no effect beyond the
\* acknowledgement unless it is the handshake.
C18_FailsClosed ==
    /\ \A d \in Handled :
          /\ d.enqueued =>
                (d.request.event = "recording.completed" /\ SignatureIsGenuine(d.request))
          /\ (d.request.body = "json" /\ ~SignatureIsGenuine(d.request)
                 /\ d.request.event # "endpoint.url_validation")
                => (~d.enqueued /\ d.logged = "invalid_signature"
                      /\ d.response.body = JsonObject([status |-> JsonString("ok")]))
    /\ Cardinality(QueuedJobs)
          = Cardinality({i \in 1..Len(webhook.handled) : webhook.handled[i].enqueued})

\* A delivery signed under the secret was enqueued, and one whose signature
\* differs from the genuine one in one bit was not.
C18_Witness ==
    \E d, e \in Handled :
        /\ d.enqueued /\ SignatureIsGenuine(d.request)
        /\ e.request.event = "recording.completed" /\ e.request.uuid # ""
        /\ e.request.signature.present /\ Len(e.request.signature.value) = 64
        /\ e.request.signature.value
              = [ExpectedDigest(webhook.secret, e.request.message) EXCEPT ![64] = FlippedDigit(@)]
        /\ ~e.enqueued

Played == {playback[i] : i \in 1..Len(playback)}

\* C19: a request for a record whose lesson reference is absent or dangling
\* and whose batch has a course, by a member of that course, is authorized.
C19_BatchFallbackAuthorizes ==
    \A p \in Played :
        (/\ cfg[p.name].lesson = "" \/ ~p.lesson_exists
         /\ BatchCourses(cfg[p.name].batch_name) # <<>>
         /\ [course |-> BatchCourses(cfg[p.name].batch_name)[1], member |-> p.user]
               \in Memberships)
            => p.result.authorized

Unprivileged(user) == user \notin Moderators \cup Instructors

\* The courses the lesson or the batch of the record leads to.
CoursesOf(name) ==
    {LessonCourse(cfg[name].lesson)}
    \cup {BatchCourses(cfg[name].batch_name)[i] : i \in 1..Len(BatchCourses(cfg[name].batch_name))}

\* C20: a user without a membership and without the moderator or instructor
\* role is denied, whatever the lesson and the batch resolve to, and a
\* denial holds no URL and no passcode and made no call to the provider.
C20_UnenrolledIsDenied ==
    \A p \in Played :
        /\ (/\ Unprivileged(p.user)
            /\ \A c \in CoursesOf(p.name) : [course |-> c, member |-> p.user] \notin Memberships)
              => ~p.result.authorized
        /\ ~p.result.authorized
              => (p.result.playback_url = "" /\ p.result.passcode = "" /\ p.result.calls = <<>>)

\* A guest was denied the ingested recording of LC1, whose course resolves,
\* and a member of another course was denied it as well.
C20_Witness ==
    /\ rec["LC1"].recording_url # ""
    /\ \E p, q \in Played :
          /\ p.user = "guest@lms" /\ p.name = "LC1" /\ p.result.why = "not_enrolled"
          /\ q.user = "s2@lms" /\ q.name = "LC1" /\ q.result.why = "not_enrolled"

----------------------------------------------------------------------------
(* C21..C30: roles, file selection, stored values and the frame of a run *)

Privileged(user) == user \in Moderators \cup Instructors

\* Step 1 found a course for the request: through the lesson when the record
\* has a lesson reference, through the batch when it has none.
CourseResolvedFor(p) ==
    IF cfg[p.name].lesson # ""
    THEN p.lesson_exists /\ LessonCourse(cfg[p.name].lesson) # ""
    ELSE BatchCourses(cfg[p.name].batch_name) # <<>>

FirstEligible(files) ==
    CHOOSE i \in 1..Len(files) :
        Eligible(files[i]) /\ \A k \in 1..(i - 1) : ~Eligible(files[k])

\* C23: the file a run selects is the first descriptor in list order that is
\* an MP4 of an allowed recording type, the ones before it being skipped, and
\* the update of the run stores the id, play_url, file_size and the duration
\* between the timestamps of that very descriptor.
C23_FirstEligibleFileIsStored ==
    [][\A j \in JobIds :
          LET files == job[j].recording_files
              file  == files[FirstEligible(files)]
          IN  /\ (job[j].pc = "check" /\ job'[j].pc = "auth") => job'[j].video_file = file
              /\ (job[j].pc = "store" /\ job'[j].pc = "notify")
                 => /\ rec'[Target(j)].zoom_recording_id = file.id
                    /\ rec'[Target(j)].recording_url = file.play_url
                    /\ rec'[Target(j)].recording_file_size = file.file_size
                    /\ rec'[Target(j)].recording_duration =
                          IF file.recording_start # NoTimestamp /\ file.recording_end # NoTimestamp
                          THEN SecondsBetween(file.recording_start, file.recording_end)
                          ELSE 0]_vars

\* C23 witness: a run stored the second descriptor of a list whose first is
\* not eligible, another the first of a list with two eligible descriptors.
C23_Witness ==
    \E j, k \in JobIds :
        /\ job[j].wrote /\ job[j].recording_files = <<AudioOnly, SpeakerVideo>>
        /\ job[j].video_file = SpeakerVideo
        /\ job[k].wrote /\ job[k].recording_files = <<GalleryVideo, SpeakerVideo>>
        /\ job[k].video_file = GalleryVideo

\* C24: the recording_duration and the recording_file_size of every record
\* are integers >= 0 in every reachable state, whatever descriptor was
\* delivered, also one whose recording_end is earlier than its recording_start.
C24_StoredValuesAreNonNegative ==
    \A n \in Names :
        /\ rec[n].recording_duration \in Nat
        /\ rec[n].recording_file_size \in Nat

\* The run met a Cloud record that has no meeting identifier, with an eligible
\* file and the record not yet processed.
StoppedForMeetingId(j) ==
    /\ Finished(j)
    /\ job[j].live_class # NoLiveClass
    /\ job[j].live_class.auto_recording = "Cloud"
    /\ job[j].live_class.meeting_id = ""
    /\ job[j].video_file # NoFile

\* C25: a run for a Cloud record without a meeting identifier logs that and
\* stops: the record is not written, nobody is notified, and no request went
\* to the provider, not even the exchange for the bearer token.
C25_NoMeetingIdMeansNoProviderCall ==
    \A j \in JobIds :
        StoppedForMeetingId(j)
        => /\ job[j].pc = "done" /\ job[j].log = "no_meeting_id"
           /\ ~job[j].wrote /\ ~job[j].notified
           /\ rec[Target(j)] = NoRecording
           /\ job[j].calls = <<>>

\* The recordings call of the run was answered with a status outside 2xx.
AnsweredNon2xx(j) ==
    /\ job[j].response.kind = "response"
    /\ ~(job[j].response.status >= 200 /\ job[j].response.status < 300)

\* C26: when the recordings call is answered with a non-2xx status, the run
\* writes an error-log entry, and the entry holds the body of that response.
C26_LogHoldsResponseBody ==
    \A j \in JobIds :
        (Finished(j) /\ AnsweredNon2xx(j))
        => /\ job[j].log = "http_error"
           /\ job[j].logged_response = job[j].response.body

\* The lesson reference of the record the run works on dangles.
LessonDangles(j) ==
    job[j].live_class.lesson # "" /\ job[j].live_class.lesson \notin lessons

\* The subject of a notification for a record with lesson reference l.
SubjectFor(l) ==
    IF l # "" /\ l \in lessons
    THEN "Recording available for Title of " \o l
    ELSE "Recording available for this live class"

\* C27: no step of the ingestion deletes or rewrites a live-class record's
\* own fields, and a dangling lesson reference is treated as an absent one:
\* the run for such a record stores the metadata with recording_processed =
\* true like any other, and its notification carries the default title.
C27_DanglingLessonIsTreatedAsAbsent ==
    [][/\ cfg' = cfg /\ DOMAIN rec' = Names
       /\ \A j \in JobIds :
             /\ (job[j].pc = "fetch" /\ LessonDangles(j) /\ job'[j].response.kind = "response"
                 /\ job'[j].response.status = 200 /\ job'[j].response.body # "not_json")
                => job'[j].pc = "store"
             /\ (job[j].pc = "store" /\ job'[j] # job[j])
                => (job'[j].pc = "notify" /\ HoldsMetadataOf(Target(j), j)')
             /\ (job[j].pc = "notify" /\ job'[j].notified)
                => /\ Len(notifications') = Len(notifications) + 1
                   /\ notifications'[Len(notifications')].document_name = Target(j)
                   /\ notifications'[Len(notifications')].subject
                         = SubjectFor(job[j].live_class.lesson)
                   /\ rec'[Target(j)].recording_processed]_vars

\* C27 witness: the lesson of LC1 was deleted, and a run for LC1 stored the
\* metadata and created the notification with the default title.
C27_Witness ==
    \E j \in JobIds :
        /\ job[j].pc = "done" /\ job[j].wrote /\ job[j].notified
        /\ LessonDangles(j)
        /\ rec[Target(j)].recording_processed
        /\ \E i \in NotificationsOf(Target(j)) :
              notifications[i].subject = "Recording available for this live class"

\* The run passed every step of the ingestion: a Cloud record with a meeting
\* identifier, an eligible file in the delivered list, and a recordings call
\* the provider answered with a 2xx status.
PassedEveryStep(j) ==
    /\ job[j].live_class.auto_recording = "Cloud"
    /\ job[j].live_class.meeting_id # ""
    /\ ~NoEligibleDescriptor(job[j].recording_files)
    /\ job[j].calls = <<"token", "recordings">>
    /\ job[j].response.kind = "response"
    /\ job[j].response.status >= 200 /\ job[j].response.status < 300

\* C28: a record with recording_processed = true was stored by a run that
\* passed every step: the record was in Cloud mode with a meeting identifier,
\* the list held an eligible file, and the recordings call succeeded.
C28_ProcessedImpliesEveryStepPassed ==
    \A n \in Names :
        rec[n].recording_processed
        => /\ Writers(n) # {}
           /\ \A w \in Writers(n) : PassedEveryStep(w)

\* C29: a notification about a record exists only once the update of that
\* record is committed: the record then has recording_processed = true, and
\* the run that created the notification had stored the metadata before.
C29_NotificationImpliesProcessed ==
    /\ \A i \in 1..Len(notifications) :
          rec[notifications[i].document_name].recording_processed
    /\ \A j \in JobIds : job[j].notified => job[j].wrote
    /\ \A n \in Names :
          Cardinality(NotificationsOf(n)) = Cardinality({j \in Writers(n) : job[j].notified})

\* C29 witness: a notification for LC1 exists while another run for LC1 is
\* past the idempotence check and has not stored yet.
C29_Witness ==
    \E j, k \in JobIds :
        /\ job[j].notified /\ NotificationsOf(Target(j)) # {}
        /\ j # k /\ Target(k) = Target(j) /\ job[k].pc \in {"auth", "fetch", "store"}

\* The runs that took a step in the transition.
Stepping ==
    {j \in JobIds : job'[j] # job[j]}

\* C30: a step of a run for meeting UUID u changes at most the record whose
\* uuid is u: the recording fields and the flag of every other record stay
\* as they were, whatever the outcome of the run.
C30_RunTouchesOnlyItsRecord ==
    [][\A n \in Names :
          rec'[n] # rec[n]
          => \E j \in JobIds : Stepping = {j} /\ cfg[n].uuid = job[j].meeting_uuid]_vars

\* C30 witness: a run for uuid-1 stored into LC1, a run for another uuid
\* that matches a record has ended, and that record is as it was.
C30_Witness ==
    \E j, k \in JobIds :
        /\ job[j].wrote /\ job[j].meeting_uuid = "uuid-1" /\ rec["LC1"].recording_processed
        /\ Finished(k) /\ job[k].meeting_uuid # "uuid-1" /\ Target(k) # ""
        /\ \A n \in Names \ {"LC1"} : rec[n] = NoRecording

----------------------------------------------------------------------------
(* C31..C32: the missing passcode, the calendar event of a new live class *)

\* The recordings call of the run was answered with status 200 and a JSON
\* object that has no recording_play_passcode.
AnsweredWithoutPasscode(r) ==
    r.kind = "response" /\ r.status = 200 /\ r.body = "json_no_passcode"

\* C31: a run whose recordings response succeeds without a passcode goes on:
\* it stores the metadata with recording_processed = true and an empty
\* passcode, and no later delivery changes the empty passcode of a processed
\* record.
C31_MissingPasscodeStaysMissing ==
    [][/\ \A j \in JobIds :
             /\ (job[j].pc = "fetch" /\ AnsweredWithoutPasscode(job'[j].response))
                => (job'[j].pc = "store" /\ job'[j].recording_passcode = "")
             /\ (job[j].pc = "store" /\ job'[j] # job[j]
                 /\ AnsweredWithoutPasscode(job[j].response))
                => /\ job'[j].pc = "notify"
                   /\ rec'[Target(j)].recording_processed
                   /\ rec'[Target(j)].recording_passcode = ""
                   /\ rec'[Target(j)].zoom_recording_id = job[j].video_file.id
       /\ \A n \in Names :
             (rec[n].recording_processed /\ rec[n].recording_passcode = "")
             => (rec'[n].recording_processed /\ rec'[n].recording_passcode = "")]_vars

\* C31 witness: after a run stored LC1 without a passcode, a later delivery
\* of the same event with an eligible file has ended, and the passcode of
\* LC1 is still empty.
C31_Witness ==
    \E k, j \in JobIds :
        /\ k < j /\ job[k].wrote /\ AnsweredWithoutPasscode(job[k].response)
        /\ job[j].pc = "done" /\ job[j].meeting_uuid = job[k].meeting_uuid
        /\ job[j].seen_processed
        /\ ~NoEligibleDescriptor(job[j].recording_files)
        /\ rec[Target(k)].recording_processed /\ rec[Target(k)].recording_passcode = ""

\* The user has a calendar that is enabled.
HasEnabledCalendar(user) ==
    \E c \in GoogleCalendars : c.user = user /\ c.enable = 1

\* The enrolled members of the batch, its instructors, and the user.
ExpectedParticipants(batch_name, user) ==
    {x.member : x \in {b \in BatchEnrollments : b.batch = batch_name}}
    \cup {x.instructor : x \in {r \in CourseInstructors : r.parent = batch_name}}
    \cup {user}

\* C32: inserting a live class creates an event, and links it to the class,
\* exactly when the inserting user has an enabled calendar; the participants
\* of the event are the enrolled members of the batch, the instructors of the
\* batch and the inserting user, each with one row, also a user who is in
\* more than one of the three groups.
C32_EventParticipantsAreTheUnionOnce ==
    \A n \in Names :
        LET c    == calendar[n]
            rows == c.events[1].event_participants
        IN  /\ ~c.inserted => (c.events = <<>> /\ c.event = "")
            /\ (c.inserted /\ ~HasEnabledCalendar(c.owner)) => (c.events = <<>> /\ c.event = "")
            /\ (c.inserted /\ HasEnabledCalendar(c.owner))
               => /\ Len(c.events) = 1 /\ c.event = c.events[1].name /\ c.event # ""
                  /\ {rows[i].reference_docname : i \in 1..Len(rows)}
                        = ExpectedParticipants(cfg[n].batch_name, c.owner)
                  /\ \A i, k \in 1..Len(rows) :
                        rows[i].reference_docname = rows[k].reference_docname => i = k
                  /\ \A i \in 1..Len(rows) : rows[i].parent = c.event

\* C32 witness: s1@lms, enrolled in BATCH-1, inserted LC1; LC3 of BATCH-2,
\* where s2@lms is member and instructor, was inserted by its instructor; and
\* a user whose calendar is disabled inserted a class that got no event.
C32_Witness ==
    /\ calendar["LC1"].owner = "s1@lms" /\ calendar["LC1"].event # ""
    /\ Len(calendar["LC1"].events[1].event_participants) = 3
    /\ calendar["LC3"].owner = "instructor@lms" /\ calendar["LC3"].event # ""
    /\ Len(calendar["LC3"].events[1].event_participants) = 2
    /\ \E n \in Names : calendar[n].owner = "moderator@lms" /\ calendar[n].event = ""

====
